---- MODULE Spec2Model ----
(***************************************************************************)
(* Appointment optimizer (Streamlit + Looker): the normalizer, the         *)
(* capacity engine, the slot ranking, the Rebalanced_Assigned export and   *)
(* the page's load / find handlers, for both scripts of the repository:    *)
(*   "streamlit"      src/appointment_optimizer_streamlit.py               *)
(*   "streamlit_new"  src/appointment_optimizer_streamlit_new.py           *)
(*                                                                         *)
(* Dates are day numbers counted from 2026-11-24 (day 0, a Tuesday); a     *)
(* timestamp is a number of minutes counted from 2026-11-24 00:00, so the  *)
(* date of timestamp t is t \div 1440 and a duration is a difference of    *)
(* timestamps.  A missing timestamp (None / NaT) is the empty sequence, a  *)
(* present one a one-element sequence; a missing string is NULL.           *)
(***************************************************************************)
EXTENDS Integers, Sequences, FiniteSets, TLC

VARIABLES
    variant,        \* which script runs
    filterApplied,  \* whether Looker honours the request's locations.name filter
    upstream,       \* the rows Looker holds (the Look's result, unfiltered)
    today,          \* the wall-clock date
    hasLocations,   \* "locations" in st.session_state
    locations,      \* st.session_state["locations"]: the selectbox's options
    location,       \* the selectbox's value (NULL: None, or not yet bound)
    hasData,        \* "data" in st.session_state
    data,           \* st.session_state["data"]: the normalized records
    loadedOn,       \* date.today() as read by the preprocess that wrote data
    loadsOk,        \* history: some load has succeeded
    lastOp,         \* the interaction the last script run handled
    reqDuration,    \* the duration the last find-slots run was given
    asOf,           \* datetime.now().date() as read by that get_optimal_times
    util,           \* the table calculate_utilization returned to it
    results,        \* the frame get_optimal_times returned
    warning,        \* st.warning was shown by get_optimal_times
    tableShown,     \* st.dataframe(results) was shown
    exported,       \* the Rebalanced_Assigned download was offered
    rebalanced      \* the rows of the Rebalanced_Assigned sheet

vars == <<variant, filterApplied, upstream, today, hasLocations, locations,
          location, hasData, data,
          loadedOn, loadsOk, lastOp, reqDuration, asOf, util, results, warning,
          tableShown, exported, rebalanced>>

(***************************************************************************)
(* Configuration                                                           *)
(***************************************************************************)
CLINIC_HOURS == 9
MINUTES_PER_HOUR == 60
CLINIC_START == 480
CLINIC_END == 1020
OPTIMIZATION_WINDOW_DAYS == 30
HeadCount == 3

MinutesPerDay == 24 * 60

Variants == {"streamlit", "streamlit_new"}

\* The first day of the window, as an offset from today: date.today() + 30 days
\* in the first script, date.today() in the second.
WindowOffset(v) == IF v = "streamlit" THEN OPTIMIZATION_WINDOW_DAYS ELSE 0

(***************************************************************************)
(* Bounds of the model                                                     *)
(***************************************************************************)
MaxRecs == 4
MaxRaw == 2
MaxTicks == 1

(***************************************************************************)
(* The holiday calendar.  HolidayCalendar holds the dates holidays.US()    *)
(* recognises between 2026-11-23 and 2027-01-03: Thanksgiving 2026-11-26   *)
(* (day 2), Christmas Day 2026-12-25 (day 31), New Year's Day 2027-01-01   *)
(* (day 38).                                                               *)
(*                                                                         *)
(* holidays.US() is built with no `years` argument: the dict it returns    *)
(* holds the holidays of a year only once a date of that year has been     *)
(* looked up in it (`d in us_holidays`, us_holidays.get(d)).  Both scripts *)
(* only hand the object to Series.isin, which iterates over the keys it    *)
(* holds and looks nothing up, so no year is ever populated.               *)
(***************************************************************************)
HolidayCalendar == {2, 31, 38}

YearOf(d) == IF d <= 37 THEN 2026 ELSE 2027

PopulatedYears == {}

us_holidays == {d \in HolidayCalendar : YearOf(d) \in PopulatedYears}

(***************************************************************************)
(* Raw records                                                             *)
(***************************************************************************)
NULL == "null"
NaT == <<>>

\* The location names of the model, in the order Python sorts strings.
LocationNames == <<"L1", "L2">>

LocRank(l) == CHOOSE i \in DOMAIN LocationNames : LocationNames[i] = l

At(d, m) == <<d * MinutesPerDay + m>>

\* An appointment that starts at 10:00 on day d and ends dur minutes later.
Rec(status, d, dur, loc, chair) ==
    [status |-> status, start_time |-> At(d, 600), end_time |-> At(d, 600 + dur),
     loc |-> loc, chair |-> chair, med |-> "M"]

\* The first four days of the window that are not in the calendar, the first
\* calendar holiday of the window, and the day before the window, at day 0.
OpenDates(v) == IF v = "streamlit" THEN <<30, 32, 33, 34>> ELSE <<0, 1, 3, 4>>
HolidayDate(v) == IF v = "streamlit" THEN 31 ELSE 2
EarlyDate(v) == WindowOffset(v) - 1

\* The schedule rows the page's runs are explored on.
CorePool(v) ==
    LET d == OpenDates(v) IN
    << Rec("Active", d[3], 300, "L1", "c1"),
       Rec("Active", d[1], 300, "L1", "c1"),
       Rec("Complete", d[2], 300, "L1", "c1"),
       Rec("Active", d[2], 300, "L1", "c2"),
       Rec("Active", d[2], 540, "L1", "c1"),
       Rec("Active", d[4], 300, "L1", "c1"),
       Rec("Active", d[2], 300, "L2", "c1"),
       Rec("Active", d[3], -60, "L1", "c1"),
       Rec("Active", HolidayDate(v), 300, "L1", "c1"),
       Rec("Cancelled", d[4], 300, "L1", "c1") >>

RECURSIVE PickRows(_, _, _)
PickRows(pool, S, i) ==
    IF i > Len(pool) THEN <<>>
    ELSE (IF i \in S THEN <<pool[i]>> ELSE <<>>) \o PickRows(pool, S, i + 1)

\* Every selection of at most MaxRecs rows of the pool, in the pool's order.
CoreInputs(v) ==
    {PickRows(CorePool(v), S, 1) :
        S \in {T \in SUBSET (1 .. Len(CorePool(v))) : Cardinality(T) <= MaxRecs}}

\* The rows the normalizer is explored on: a well-formed row and every row
\* that differs from it in one field.
NormPool(v) ==
    LET ok == Rec("Active", OpenDates(v)[2], 300, "L1", "c1") IN
    {ok}
    \cup {[ok EXCEPT !.status = s] : s \in {"Complete", "Cancelled", "No Show"}}
    \cup {Rec("Active", d, 300, "L1", "c1") :
            d \in {EarlyDate(v), OpenDates(v)[1], HolidayDate(v)}}
    \cup {[ok EXCEPT !.start_time = NaT], [ok EXCEPT !.end_time = NaT]}
    \cup {Rec("Active", OpenDates(v)[2], dur, "L1", "c1") : dur \in {-60, 0}}
    \cup {[ok EXCEPT !.loc = l] : l \in {NULL, "L2"}}
    \cup {[ok EXCEPT !.chair = c] : c \in {NULL, "c2"}}
    \cup {[ok EXCEPT !.med = NULL]}

NormInputs(v) == UNION {[1 .. n -> NormPool(v)] : n \in 0 .. MaxRaw}

(***************************************************************************)
(* Looker                                                                  *)
(***************************************************************************)
\* get_appointment_data(location_name): the rows of the Look for the request's
\* filter, or every row when Looker does not apply the filter.
get_appointment_data(l) ==
    IF filterApplied
    THEN LET Match(r) == r.loc # NULL /\ r.loc = l IN SelectSeq(upstream, Match)
    ELSE upstream

\* get_locations_list(): sorted(df["locations.name"].dropna().unique()) over
\* every row of the Look.
get_locations_list(df) ==
    LET names == {df[i].loc : i \in DOMAIN df} \ {NULL}
        Present(l) == l \in names
    IN SelectSeq(LocationNames, Present)

\* pd.DataFrame(r.json()) of an empty result has no columns, and preprocess
\* then fails on df["appointments.status"] with a KeyError.
HasColumns(df) == Len(df) > 0

(***************************************************************************)
(* preprocess                                                              *)
(***************************************************************************)
Original_Date(r) == r.start_time[1] \div MinutesPerDay

Duration(r) == r.end_time[1] - r.start_time[1]

\* The row filters of preprocess, in the order the code applies them: the
\* status filter, the date window (a NaT date compares False), the holiday
\* filter, then dropna over the columns that are kept.
Survives(r, v, td) ==
    /\ r.status \in {"Complete", "Active"}
    /\ r.start_time # NaT
    /\ Original_Date(r) >= td + WindowOffset(v)
    /\ Original_Date(r) \notin us_holidays
    /\ r.loc # NULL
    /\ r.chair # NULL
    /\ r.med # NULL
    /\ r.end_time # NaT

\* The columns preprocess returns; Appt_ID is the row's index in the raw frame
\* and exists in the first script only.
Normalized(r, i, v) ==
    IF v = "streamlit"
    THEN [Appt_ID |-> i - 1, loc |-> r.loc, chair |-> r.chair, med |-> r.med,
          Duration |-> Duration(r), Original_Date |-> Original_Date(r)]
    ELSE [loc |-> r.loc, chair |-> r.chair, med |-> r.med,
          Duration |-> Duration(r), Original_Date |-> Original_Date(r)]

RECURSIVE preprocess_from(_, _, _, _)
preprocess_from(df, i, v, td) ==
    IF i > Len(df) THEN <<>>
    ELSE (IF Survives(df[i], v, td) THEN <<Normalized(df[i], i, v)>> ELSE <<>>)
         \o preprocess_from(df, i + 1, v, td)

preprocess(df, v, td) == preprocess_from(df, 1, v, td)

(***************************************************************************)
(* calculate_capacity, calculate_utilization                               *)
(***************************************************************************)
\* Mutant of calculate_capacity: count() where the code has nunique(), so a
\* chair counts once per appointment.
calculate_capacity_count(df) ==
    [l \in {df[i].loc : i \in DOMAIN df} |->
        Cardinality({j \in DOMAIN df : df[j].loc = l})
            * CLINIC_HOURS * MINUTES_PER_HOUR]

\* {location: number of distinct chairs * CLINIC_HOURS * MINUTES_PER_HOUR}
calculate_capacity(df) ==
    [l \in {df[i].loc : i \in DOMAIN df} |->
        Cardinality({df[i].chair : i \in {j \in DOMAIN df : df[j].loc = l}})
            * CLINIC_HOURS * MINUTES_PER_HOUR]

RECURSIVE SumDuration(_)
SumDuration(rows) ==
    IF rows = <<>> THEN 0 ELSE Head(rows).Duration + SumDuration(Tail(rows))

KeyLeq(a, b) ==
    \/ LocRank(a[1]) < LocRank(b[1])
    \/ a[1] = b[1] /\ a[2] <= b[2]

\* groupby sorts its keys: (location, date) ascending.
RECURSIVE SortedKeys(_)
SortedKeys(K) ==
    IF K = {} THEN <<>>
    ELSE LET m == CHOOSE k \in K : \A o \in K : KeyLeq(k, o)
         IN <<m>> \o SortedKeys(K \ {m})

Max0(x) == IF x < 0 THEN 0 ELSE x

\* Mutant of calculate_utilization: no groupby, one row per appointment.
calculate_utilization_ungrouped(df) ==
    LET capacity_map == calculate_capacity(df)
    IN [n \in DOMAIN df |->
          [loc |-> df[n].loc, Original_Date |-> df[n].Original_Date,
           Total_Minutes |-> df[n].Duration,
           Available_Minutes |-> capacity_map[df[n].loc],
           Remaining_Minutes |-> Max0(capacity_map[df[n].loc] - df[n].Duration)]]

calculate_utilization(df) ==
    LET keys == SortedKeys({<<df[i].loc, df[i].Original_Date>> : i \in DOMAIN df})
        capacity_map == calculate_capacity(df)
        Row(k) ==
            LET InGroup(r) == r.loc = k[1] /\ r.Original_Date = k[2]
                total == SumDuration(SelectSeq(df, InGroup))
                avail == capacity_map[k[1]]
            IN [loc |-> k[1], Original_Date |-> k[2], Total_Minutes |-> total,
                Available_Minutes |-> avail,
                Remaining_Minutes |-> Max0(avail - total)]
    IN [n \in DOMAIN keys |-> Row(keys[n])]

(***************************************************************************)
(* get_optimal_times                                                       *)
(***************************************************************************)
\* The days of `location` that pass the three filters: on or after the
\* cutoff, not among the dates us_holidays holds, with room for `duration`.
qualifying_days(ut, loc, duration, v, td) ==
    LET Keep(row) ==
            /\ row.loc = loc
            /\ row.Original_Date >= td + WindowOffset(v)
            /\ row.Original_Date \notin us_holidays
            /\ row.Remaining_Minutes >= duration
    IN SelectSeq(ut, Keep)

\* strftime("%I:%M %p") of a time of day given in minutes: the 12-hour clock's
\* hour (01..12), the minute and AM/PM.  Seconds are not printed.
strftime(tod) ==
    LET h == tod \div 60 IN
    [I |-> IF h % 12 = 0 THEN 12 ELSE h % 12, M |-> tod % 60,
     p |-> IF h < 12 THEN "AM" ELSE "PM"]

\* datetime.strptime(s, "%I:%M %p").time(), in minutes after midnight.
strptime(s) == ((s.I % 12) + (IF s.p = "PM" THEN 12 ELSE 0)) * 60 + s.M

\* The order of the strings strftime("%I:%M %p") prints: both digits of the
\* hour, then the minute, then "AM" before "PM".
StringRank(s) == (s.I * 60 + s.M) * 2 + (IF s.p = "PM" THEN 1 ELSE 0)

\* First script: Utilization_Ratio = (Total / Available).clip(upper=1),
\* Next_Start_Minute = ratio * 540 (a float), next_time = the date at 08:00
\* plus that many minutes; when its time of day is after CLINIC_END it becomes
\* 17:00; the result is printed with strftime.
compute_next_available(row) ==
    LET total_day_minutes == CLINIC_HOURS * 60
        num == IF row.Total_Minutes >= row.Available_Minutes
               THEN total_day_minutes * row.Available_Minutes
               ELSE row.Total_Minutes * total_day_minutes
        whole == num \div row.Available_Minutes
        fraction == num % row.Available_Minutes # 0
        tod == (CLINIC_START + whole) % MinutesPerDay
        late == tod > CLINIC_END \/ (tod = CLINIC_END /\ fraction)
    IN strftime(IF late THEN CLINIC_END ELSE tod)

\* Second script: Next_Start_Minute = Available - Remaining, and
\* Next_Available_Time = (the date at 08:00 + that many minutes).time().
next_available_time_new(row) ==
    (CLINIC_START + (row.Available_Minutes - row.Remaining_Minutes)) % MinutesPerDay

with_next_available(row, v) ==
    IF v = "streamlit"
    THEN [loc |-> row.loc, Original_Date |-> row.Original_Date,
          Total_Minutes |-> row.Total_Minutes,
          Available_Minutes |-> row.Available_Minutes,
          Remaining_Minutes |-> row.Remaining_Minutes,
          Next_Available_Time |-> compute_next_available(row)]
    ELSE [loc |-> row.loc, Original_Date |-> row.Original_Date,
          Total_Minutes |-> row.Total_Minutes,
          Available_Minutes |-> row.Available_Minutes,
          Remaining_Minutes |-> row.Remaining_Minutes,
          Next_Available_Time |-> next_available_time_new(row)]

\* The second sort key: the printed string in the first script, the time in
\* the second.
TimeRank(row, v) ==
    IF v = "streamlit" THEN StringRank(row.Next_Available_Time)
    ELSE row.Next_Available_Time

RowLeq(a, b, v) ==
    \/ a.Original_Date < b.Original_Date
    \/ a.Original_Date = b.Original_Date /\ TimeRank(a, v) <= TimeRank(b, v)

\* sort_values(by=["Original_Date", "Next_Available_Time"]): a stable sort.
RECURSIVE InsertRow(_, _, _)
InsertRow(row, sorted, v) ==
    IF sorted = <<>> THEN <<row>>
    ELSE IF RowLeq(Head(sorted), row, v)
         THEN <<Head(sorted)>> \o InsertRow(row, Tail(sorted), v)
         ELSE <<row>> \o sorted

RECURSIVE sort_values(_, _)
sort_values(rows, v) ==
    IF rows = <<>> THEN <<>>
    ELSE InsertRow(rows[Len(rows)], sort_values(SubSeq(rows, 1, Len(rows) - 1), v), v)

\* Mutant of head: tail(3), the last rows of the ordering.
head_last(rows) ==
    SubSeq(rows, IF Len(rows) < HeadCount THEN 1 ELSE Len(rows) - HeadCount + 1,
           Len(rows))

head(rows) == SubSeq(rows, 1, IF Len(rows) < HeadCount THEN Len(rows) ELSE HeadCount)

\* The columns get_optimal_times returns.
Slot(row, v) ==
    IF v = "streamlit"
    THEN [Original_Date |-> row.Original_Date,
          Next_Available_Time |-> row.Next_Available_Time,
          Remaining_Minutes |-> row.Remaining_Minutes,
          Assigned_DateTime |-> row.Original_Date * MinutesPerDay
                                  + strptime(row.Next_Available_Time)]
    ELSE [Original_Date |-> row.Original_Date,
          Next_Available_Time |-> row.Next_Available_Time,
          Remaining_Minutes |-> row.Remaining_Minutes]

\* Mutant of no_capacity: the empty check is missing.
no_capacity_unchecked(loc_util) == FALSE

\* `if loc_util.empty`: the warning is shown and an empty frame returned.
no_capacity(loc_util) == loc_util = <<>>

\* The returned frame, and whether st.warning was called.
get_optimal_times(ut, loc, duration, v, td) ==
    LET loc_util == qualifying_days(ut, loc, duration, v, td)
        timed == [n \in DOMAIN loc_util |-> with_next_available(loc_util[n], v)]
        top == head(sort_values(timed, v))
    IN IF no_capacity(loc_util)
       THEN [frame |-> <<>>, warned |-> TRUE]
       ELSE [frame |-> [n \in DOMAIN top |-> Slot(top[n], v)], warned |-> FALSE]

(***************************************************************************)
(* export_rebalanced_assigned (first script)                               *)
(***************************************************************************)
\* Every row of the session's data, with Assigned_Date and Next_Available_Time
\* taken from the first returned slot.
export_rebalanced_assigned(df, optimized_df, td) ==
    IF optimized_df = <<>> THEN <<>>
    ELSE [n \in DOMAIN df |->
            [Appt_ID |-> df[n].Appt_ID, loc |-> df[n].loc, chair |-> df[n].chair,
             med |-> df[n].med, Duration |-> df[n].Duration,
             Original_Date |-> df[n].Original_Date,
             Assigned_Date |-> optimized_df[1].Original_Date,
             Next_Available_Time |-> optimized_df[1].Next_Available_Time,
             Days_Moved |-> optimized_df[1].Original_Date - df[n].Original_Date,
             Created_At |-> td]]

(***************************************************************************)
(* The page: every interaction reruns the script, which redraws the page   *)
(* from st.session_state and the widgets' values.                          *)
(***************************************************************************)
ReqDurations == {60, 300}

InitPage ==
    /\ variant \in Variants
    /\ filterApplied \in BOOLEAN
    /\ today = 0
    /\ hasLocations = FALSE
    /\ locations = <<>>
    /\ location = NULL
    /\ hasData = FALSE
    /\ data = <<>>
    /\ loadedOn = 0
    /\ loadsOk = FALSE
    /\ lastOp = "init"
    /\ reqDuration = 0
    /\ asOf = 0
    /\ util = <<>>
    /\ results = <<>>
    /\ warning = FALSE
    /\ tableShown = FALSE
    /\ exported = FALSE
    /\ rebalanced = <<>>

Init == InitPage /\ upstream \in CoreInputs(variant)

InitNorm == InitPage /\ upstream \in NormInputs(variant)

\* A run that does not handle the find-slots button draws no slot table.
NoFindOutput ==
    /\ reqDuration' = 0
    /\ asOf' = 0
    /\ util' = <<>>
    /\ results' = <<>>
    /\ warning' = FALSE
    /\ tableShown' = FALSE
    /\ exported' = FALSE
    /\ rebalanced' = <<>>

\* The script's run while "locations" is not in st.session_state (the first
\* run, and every run after a failed one): get_locations_list may raise (the
\* network, or the KeyError on a result without columns), which shows st.error
\* and draws nothing else; otherwise the list is stored and the selectbox
\* drawn, its value the first option (None when there is no option).
LoadLocations ==
    /\ ~hasLocations
    /\ NoFindOutput
    /\ UNCHANGED <<variant, filterApplied, upstream, today, hasData, data,
                   loadedOn, loadsOk>>
    /\ \/ /\ lastOp' = "locations_error"
          /\ UNCHANGED <<hasLocations, locations, location>>
       \/ IF HasColumns(upstream)
          THEN /\ locations' = get_locations_list(upstream)
               /\ hasLocations' = TRUE
               /\ location' = IF get_locations_list(upstream) = <<>> THEN NULL
                               ELSE get_locations_list(upstream)[1]
               /\ lastOp' = "locations_ok"
          ELSE /\ lastOp' = "locations_error"
               /\ UNCHANGED <<hasLocations, locations, location>>

\* A run of the script in which no button is pressed and the selectbox keeps
\* its value: the duration input is edited, the download button is clicked,
\* or the page is rerun by hand.  The page is redrawn from st.session_state,
\* without slot table, warning or download button.
Rerun ==
    /\ hasLocations
    /\ lastOp' = "rerun"
    /\ NoFindOutput
    /\ UNCHANGED <<variant, filterApplied, upstream, today, hasLocations,
                   locations, location, hasData, data, loadedOn, loadsOk>>

\* The selectbox is set to another of its options.
SelectLocation(l) ==
    /\ hasLocations
    /\ \E i \in DOMAIN locations : locations[i] = l
    /\ l # location
    /\ location' = l
    /\ lastOp' = "select"
    /\ NoFindOutput
    /\ UNCHANGED <<variant, filterApplied, upstream, today, hasLocations,
                   locations, hasData, data, loadedOn, loadsOk>>

\* Mutant of LoadSchedule: the except branch stores an empty frame.
LoadScheduleStoresOnError ==
    /\ hasLocations
    /\ NoFindOutput
    /\ UNCHANGED <<variant, filterApplied, upstream, today, hasLocations,
                   locations, location>>
    /\ \/ /\ lastOp' = "load_error"
          /\ data' = <<>>
          /\ hasData' = TRUE
          /\ UNCHANGED <<loadedOn, loadsOk>>
       \/ LET df_raw == get_appointment_data(location) IN
          /\ data' = preprocess(df_raw, variant, today)
          /\ hasData' = TRUE
          /\ loadedOn' = today
          /\ loadsOk' = TRUE
          /\ lastOp' = "load_ok"

\* "Load Schedule for Selected Location": the fetch may raise
\* (raise_for_status, the network), preprocess raises when the columns are
\* absent; either way the except branch shows st.error and session_state is
\* not written.
LoadSchedule ==
    /\ hasLocations
    /\ NoFindOutput
    /\ UNCHANGED <<variant, filterApplied, upstream, today, hasLocations,
                   locations, location>>
    /\ \/ /\ lastOp' = "load_error"
          /\ UNCHANGED <<hasData, data, loadedOn, loadsOk>>
       \/ LET df_raw == get_appointment_data(location) IN
          IF HasColumns(df_raw)
          THEN /\ data' = preprocess(df_raw, variant, today)
               /\ hasData' = TRUE
               /\ loadedOn' = today
               /\ loadsOk' = TRUE
               /\ lastOp' = "load_ok"
          ELSE /\ lastOp' = "load_error"
               /\ UNCHANGED <<hasData, data, loadedOn, loadsOk>>

\* "Find Next 3 Optimal Appointment Times", drawn only when "data" is in
\* st.session_state; the first script then exports the rebalanced sheet.
\* `created` is the date the export reads for Created_At, a second read of the
\* clock after get_optimal_times' own: midnight may pass between the two.
FindOptimalTimes(duration, created) ==
    /\ hasData
    /\ LET ut == calculate_utilization(data)
           got == get_optimal_times(ut, location, duration, variant, today)
           shown == got.frame # <<>>
       IN /\ \/ created = today
             \/ /\ created = today + 1
                /\ today < MaxTicks
                /\ shown /\ variant = "streamlit"
          /\ util' = ut
          /\ results' = got.frame
          /\ warning' = got.warned
          /\ tableShown' = shown
          /\ exported' = (shown /\ variant = "streamlit")
          /\ rebalanced' = IF shown /\ variant = "streamlit"
                           THEN export_rebalanced_assigned(data, got.frame, created)
                           ELSE <<>>
    /\ reqDuration' = duration
    /\ asOf' = today
    /\ today' = created
    /\ lastOp' = "find"
    /\ UNCHANGED <<variant, filterApplied, upstream, hasLocations, locations,
                   location, hasData, data, loadedOn, loadsOk>>

\* Midnight passes.
Tick ==
    /\ today < MaxTicks
    /\ today' = today + 1
    /\ UNCHANGED <<variant, filterApplied, upstream, hasLocations, locations,
                   location, hasData, data, loadedOn, loadsOk, lastOp, reqDuration, asOf, util, results,
                   warning, tableShown, exported, rebalanced>>

Next ==
    \/ LoadLocations
    \/ Rerun
    \/ \E l \in {LocationNames[i] : i \in DOMAIN LocationNames} : SelectLocation(l)
    \/ LoadSchedule
    \/ \E d \in ReqDurations : \E c \in {today, today + 1} : FindOptimalTimes(d, c)
    \/ Tick

Spec == Init /\ [][Next]_vars

\* The normalizer alone, on the rows of NormPool.
NextNorm == LoadLocations \/ LoadSchedule \/ Tick

SpecNorm == InitNorm /\ [][NextNorm]_vars

(***************************************************************************)
(* Properties                                                              *)
(***************************************************************************)
RECURSIVE IndexSum(_)
\* The sum of the durations of the session's records at the indices in S.
IndexSum(S) ==
    IF S = {} THEN 0
    ELSE LET i == CHOOSE j \in S : TRUE IN data[i].Duration + IndexSum(S \ {i})

RecordsOf(l, d) ==
    {i \in DOMAIN data : data[i].loc = l /\ data[i].Original_Date = d}

ChairsOf(l) == {data[i].chair : i \in {j \in DOMAIN data : data[j].loc = l}}

\* The projected clock time of a returned slot, in minutes after midnight.
ClockMinute(slot) ==
    IF variant = "streamlit" THEN strptime(slot.Next_Available_Time)
    ELSE slot.Next_Available_Time

\* The row of the utilization table a returned slot was made from.
UtilRowOf(slot) ==
    util[CHOOSE n \in DOMAIN util :
            util[n].loc = location /\ util[n].Original_Date = slot.Original_Date]

\* C1: every record preprocess returns comes from a raw row whose status is
\* Complete or Active, has a service date on or after the first day of the
\* window (today + 30 days in the first script, today in the second) as of the
\* load, a service date that is not a holiday, and a location, chair and
\* duration that are not null.
C1_NormalizedRecordsClean ==
    hasData =>
        \A i \in DOMAIN data :
            /\ \E j \in DOMAIN upstream :
                /\ upstream[j].status \in {"Complete", "Active"}
                /\ upstream[j].start_time # NaT
                /\ upstream[j].end_time # NaT
                /\ Original_Date(upstream[j]) = data[i].Original_Date
                /\ Duration(upstream[j]) = data[i].Duration
                /\ upstream[j].loc = data[i].loc
                /\ upstream[j].chair = data[i].chair
            /\ data[i].Original_Date >= loadedOn + WindowOffset(variant)
            /\ data[i].Original_Date \notin HolidayCalendar
            /\ data[i].loc # NULL
            /\ data[i].chair # NULL
            /\ data[i].Duration \in Int

\* C2: every record that survives preprocess has a non-negative duration: a
\* raw row that ends before it starts is dropped.
C2_DurationNonNegative ==
    hasData => \A i \in DOMAIN data : data[i].Duration >= 0

\* C3: calculate_utilization returns exactly one row per (location, date) pair
\* of the normalized records; a row's Total_Minutes is the sum of the durations
\* of exactly the records of that pair, its Available_Minutes is 540 times the
\* number of distinct chairs of the location anywhere in the records, and its
\* Remaining_Minutes is max(0, available - consumed), never negative.
C3_UtilizationRows ==
    lastOp = "find" =>
        /\ \A i \in DOMAIN data :
            Cardinality({n \in DOMAIN util :
                            /\ util[n].loc = data[i].loc
                            /\ util[n].Original_Date = data[i].Original_Date}) = 1
        /\ \A n \in DOMAIN util :
            LET row == util[n]
                recs == RecordsOf(row.loc, row.Original_Date)
                available == 540 * Cardinality(ChairsOf(row.loc))
            IN /\ recs # {}
               /\ row.Total_Minutes = IndexSum(recs)
               /\ row.Available_Minutes = available
               /\ row.Remaining_Minutes =
                    (IF available - row.Total_Minutes > 0
                     THEN available - row.Total_Minutes ELSE 0)
               /\ row.Remaining_Minutes >= 0

\* A find over a table of several rows, one of them a two-chair day that sums
\* several records and is booked beyond its capacity.
C3_Witness ==
    /\ lastOp = "find"
    /\ Len(util) >= 2
    /\ \E n \in DOMAIN util :
        /\ util[n].Available_Minutes = 1080
        /\ Cardinality(RecordsOf(util[n].loc, util[n].Original_Date)) >= 2
        /\ util[n].Total_Minutes > util[n].Available_Minutes
        /\ util[n].Remaining_Minutes = 0

\* C4: every slot get_optimal_times returns is a day of the target location
\* inside the date window, is not a holiday, and has at least the requested
\* duration remaining.
C4_SlotsQualify ==
    lastOp = "find" =>
        \A k \in DOMAIN results :
            /\ RecordsOf(location, results[k].Original_Date) # {}
            /\ results[k].Original_Date >= asOf + WindowOffset(variant)
            /\ results[k].Original_Date \notin HolidayCalendar
            /\ results[k].Remaining_Minutes >= reqDuration

\* The days of the target location that pass get_optimal_times' filters.
QualifyingRows ==
    {n \in DOMAIN util :
        /\ util[n].loc = location
        /\ util[n].Original_Date >= asOf + WindowOffset(variant)
        /\ util[n].Original_Date \notin us_holidays
        /\ util[n].Remaining_Minutes >= reqDuration}

QualifyingDates == {util[n].Original_Date : n \in QualifyingRows}

ResultDates == {results[k].Original_Date : k \in DOMAIN results}

\* C5: get_optimal_times returns at most 3 slots, in ascending order of date
\* and then projected time, and they are the first 3 of the qualifying days in
\* that order: no qualifying day earlier than a returned day is left out.
C5_FirstThreeByDate ==
    lastOp = "find" =>
        /\ Len(results) <= 3
        /\ Len(results) = (IF Cardinality(QualifyingRows) < 3
                           THEN Cardinality(QualifyingRows) ELSE 3)
        /\ ResultDates \subseteq QualifyingDates
        /\ \A k \in 1 .. Len(results) - 1 :
            \/ results[k].Original_Date < results[k + 1].Original_Date
            \/ /\ results[k].Original_Date = results[k + 1].Original_Date
               /\ ClockMinute(results[k]) <= ClockMinute(results[k + 1])
        /\ \A q \in QualifyingDates \ ResultDates : \A r \in ResultDates : r < q

\* A find with more than three qualifying days, of which three are returned.
C5_Witness ==
    /\ lastOp = "find"
    /\ Cardinality(QualifyingRows) >= 4
    /\ Len(results) = 3

\* C6: the projected time of every returned slot is 08:00 plus
\* utilization_ratio x 540 minutes, clamped to 17:00 when it falls at or after
\* closing, so it is never before 08:00 nor after 17:00, for any number of
\* chairs.
C6_ProjectedTimeInHours ==
    lastOp = "find" =>
        \A k \in DOMAIN results :
            LET row == UtilRowOf(results[k])
                projected == 480 + (row.Total_Minutes * 540) \div row.Available_Minutes
            IN /\ ClockMinute(results[k]) =
                    (IF projected >= 1020 THEN 1020 ELSE projected)
               /\ ClockMinute(results[k]) >= 480
               /\ ClockMinute(results[k]) <= 1020

RECURSIVE AssignedSum(_, _)
\* The total duration of the exported rows at indices S assigned to day d.
AssignedSum(S, d) ==
    IF S = {} THEN 0
    ELSE LET i == CHOOSE j \in S : TRUE
         IN (IF rebalanced[i].Assigned_Date = d THEN rebalanced[i].Duration ELSE 0)
            + AssignedSum(S \ {i}, d)

\* C7: after the export that follows a non-empty ranking, the total duration
\* assigned to a ranked day does not exceed the remaining capacity the day had
\* before, except for the overflow day, the last of the ranked list.
C7_AssignedWithinCapacity ==
    (lastOp = "find" /\ exported) =>
        \A k \in 1 .. Len(results) - 1 :
            AssignedSum(DOMAIN rebalanced, results[k].Original_Date)
                <= results[k].Remaining_Minutes

\* The days of the target location that qualify, from the session's records.
QualifyingDays ==
    {d \in {data[i].Original_Date : i \in {j \in DOMAIN data : data[j].loc = location}} :
        /\ d >= asOf + WindowOffset(variant)
        /\ d \notin us_holidays
        /\ Max0(540 * Cardinality(ChairsOf(location)) - IndexSum(RecordsOf(location, d)))
             >= reqDuration}

\* C8: when no day qualifies for the target location and duration,
\* get_optimal_times returns an empty result with the no-capacity warning, and
\* neither the slot table nor the rebalanced export is produced.
C8_NoCapacityIsEmptyResult ==
    (lastOp = "find" /\ QualifyingDays = {}) =>
        /\ results = <<>>
        /\ warning
        /\ ~tableShown
        /\ ~exported
        /\ rebalanced = <<>>

\* A find on a loaded snapshot that holds records, none of the target location.
C8_Witness ==
    /\ lastOp = "find"
    /\ warning
    /\ data # <<>>
    /\ \A i \in DOMAIN data : data[i].loc # location

\* C9: the session's cache is written only by a load that succeeds, which
\* replaces it with the normalized records fetched for the selected location;
\* a failed load, a find and an export leave it as it was, and find-slots runs
\* only after some load has succeeded.
C9_CacheWrittenOnlyByLoad ==
    [][/\ (data' # data \/ hasData' # hasData) =>
            /\ lastOp' = "load_ok"
            /\ hasData'
            /\ data' = preprocess(get_appointment_data(location), variant, today)
       /\ lastOp' = "load_error" => (data' = data /\ hasData' = hasData)
       /\ lastOp' = "find" => (data' = data /\ hasData' = hasData /\ loadsOk)
      ]_vars

\* A load has failed after one succeeded, and the cache still holds records.
C9_Witness ==
    /\ lastOp = "load_error"
    /\ hasData
    /\ loadsOk
    /\ data # <<>>

\* C10: every returned slot is a date on which the target location has at
\* least one normalized record, and no date is returned twice.
C10_SlotsAreBookedDays ==
    lastOp = "find" =>
        /\ \A k \in DOMAIN results :
            \E i \in DOMAIN data :
                /\ data[i].loc = location
                /\ data[i].Original_Date = results[k].Original_Date
        /\ \A k1, k2 \in DOMAIN results :
            k1 # k2 => results[k1].Original_Date # results[k2].Original_Date

\* Several slots are returned, one of them a day that holds several records.
C10_Witness ==
    /\ lastOp = "find"
    /\ Len(results) >= 2
    /\ \E k \in DOMAIN results :
        Cardinality(RecordsOf(location, results[k].Original_Date)) >= 2

====
